---- MODULE Spec2Model ----
(***************************************************************************)
(* TradingEngine (trading_engine.cpp): the order registry order_map_, the  *)
(* command handlers reached from execute_cmd and the gateway callbacks.    *)
(* Every handler touches order_map_ only under the engine mutex, which it  *)
(* holds to its return, so in Spec and SpecGateway one handler is one step *)
(* and every state is a state in which the mutex is free. SpecThreads      *)
(* splits the handlers at the lock, at the gateway call and at the return. *)
(***************************************************************************)
EXTENDS Integers, Sequences, FiniteSets, TLC

\* ---------------------------------------------------------------- bounds
MaxOrders == 2          \* engine order ids handed out by next_engine_order_id
MaxVolume == 2          \* largest volume of a command or a callback
MaxTradedVolume == MaxVolume + 1   \* cap on Order.traded_volume (overfills)
MaxRing == 2            \* entries the command ring holds

\* ------------------------------------------------------------- constants
TRADER_CMD_MAGIC == 24155028      \* 0x1709394
CMD_NEW_ORDER == 1
CMD_CANCEL_ORDER == 2
CMD_CANCEL_TICKER == 3
CMD_CANCEL_ALL == 4

NO_ERROR == 0
ERR_SEND_FAILED == 1
ERR_REJECTED == 2
ERR_INVALID_VOLUME == 3
ERR_FUND_NOT_ENOUGH == 4

BadMagic == TRADER_CMD_MAGIC + 1
CmdTypes == 0 .. 5                 \* 0 and 5 are outside TraderCmdType
Magics == {TRADER_CMD_MAGIC, BadMagic}

Tickers == {1, 2}                  \* indexes ContractTable::get_by_index resolves
NoTicker == 0                      \* an index it does not resolve (nullptr)
TickerInputs == Tickers \cup {NoTicker}
BrokerId(e) == 10 + e              \* the order id the broker gives engine order e
BrokerIds == {BrokerId(e) : e \in 1 .. MaxOrders}
NoBrokerId == 0                    \* Order{}.order_id before any callback set it
EngineIds == 1 .. MaxOrders
CmdVolumes == 0 .. MaxVolume
RspVolumes == 1 .. MaxVolume
CancelIdInputs == {1, BrokerId(1)}     \* an engine order id, a broker order id

TradeTypes == {"SECONDARY_MARKET", "ACQUIRED_STOCK", "RELEASED_STOCK",
               "CASH_SUBSTITUTION", "PRIMARY_MARKET"}

VARIABLES
  order_map,        \* order_map_: engine_order_id -> Order
  next_id,          \* the value the next call of next_engine_order_id() returns
  last,             \* the last handler run: its name, the id it was given, the
                    \* calls it made (risk hooks, gateway calls, map changes), in
                    \* order, and for send_order the without_check flag it was given
  n_accepted,       \* per id: RiskManager.on_order_accepted calls so far
  n_completed,      \* per id: RiskManager.on_order_completed calls so far
  cancel_sum,       \* per id in the map: sum of the canceled_volume of its cancel callbacks
  gw_cancels,       \* gateway: orders with a cancel request not yet answered
  cancel_rejected,  \* orders in the map whose latest cancel the gateway rejected
  ca_targets,       \* the orders the latest cancel_all found in the map
  cq_pc,            \* process_cmd: "redis", or where the ring's consumer stands
  ring,             \* the shared-memory ring under cmd_queue_key_
  executed,         \* the ring entries handed to execute_cmd so far
  th,               \* per thread: the handler it runs, where it stands in it
  mutex,            \* mutex_: the thread that holds it, or "free"
  gw_known,         \* engine order ids gateway_->send_order has passed on
  erased,           \* engine order ids erased from the registry
  account           \* account_: the snapshot on_query_account stored last

qvars == <<cq_pc, ring, executed>>

tvars == <<th, mutex, gw_known, erased, account>>

vars == <<order_map, next_id, last, n_accepted, n_completed, cancel_sum,
          gw_cancels, cancel_rejected, ca_targets, qvars, tvars>>

\* ---------------------------------------------------------------- helpers
Min(a, b) == IF a < b THEN a ELSE b

Call(f, id, arg) == <<f, id, arg>>

RECURSIVE SumArgs(_, _, _)
\* sum of the arguments of the calls named f for order id in a call sequence
SumArgs(calls, f, id) ==
  IF calls = <<>> THEN 0
  ELSE (IF Head(calls)[1] = f /\ Head(calls)[2] = id THEN Head(calls)[3] ELSE 0)
       + SumArgs(Tail(calls), f, id)

Count(calls, f, id) ==
  Cardinality({i \in DOMAIN calls : calls[i][1] = f /\ calls[i][2] = id})

CountAny(calls, f) == Cardinality({i \in DOMAIN calls : calls[i][1] = f})

\* position of the first call named f, 0 when there is none
Index(calls, f) ==
  IF \E i \in DOMAIN calls : calls[i][1] = f
  THEN CHOOSE i \in DOMAIN calls :
         calls[i][1] = f /\ \A j \in DOMAIN calls : calls[j][1] = f => i <= j
  ELSE 0

RiskHookNames == {"risk.on_order_sent", "risk.on_order_accepted",
   "risk.on_order_traded", "risk.on_order_canceled", "risk.on_order_rejected",
   "risk.on_order_completed"}

RiskCalls(calls) ==
  {i \in DOMAIN calls : calls[i][1] \in RiskHookNames \cup {"risk.check_order_req"}}

GatewayCalls(calls) ==
  {i \in DOMAIN calls : calls[i][1] \in {"gateway.send_order", "gateway.cancel_order"}}

\* order_map_.erase(iter)
Erase(map, id) == [e \in DOMAIN map \ {id} |-> map[e]]

\* order_map_.emplace(id, order): keeps an element already there
Emplace(map, id, order) ==
  [e \in DOMAIN map \cup {id} |-> IF e \in DOMAIN map THEN map[e] ELSE order]

\* Order{} with req filled in by send_order
NewOrder(id, ticker, volume) ==
  [req |-> [engine_order_id |-> id, contract |-> ticker, volume |-> volume],
   order_id |-> NoBrokerId, accepted |-> FALSE, status |-> "SUBMITTING",
   traded_volume |-> 0, canceled_volume |-> 0]

\* mutant: the terminal test forgets canceled_volume
IsTerminal_TradedOnly(order) == order.traded_volume = order.req.volume

\* the terminal test of on_secondary_market_traded and on_order_canceled
IsTerminal(order) ==
  order.traded_volume + order.canceled_volume = order.req.volume

\* RiskManager::check_order_req: the volume rule, then the verdict of the other rules
check_order_req(order, verdict) ==
  IF order.req.volume <= 0 THEN ERR_INVALID_VOLUME ELSE verdict

\* What a handler did: its name, the engine_order_id it was about, the map it
\* left, the calls it made in order, and the next engine order id.
Result(op, id, map, calls, next) ==
  [op |-> op, eid |-> id, map |-> map, calls |-> calls, next_id |-> next,
   bypass |-> FALSE]

\* the same for send_order, which is given the without_check flag of the command
SendResult(id, map, calls, next, without_check) ==
  [Result("send_order", id, map, calls, next) EXCEPT !.bypass = without_check]

\* mutant: the failed check is logged and the order sent all the same
RiskRefuses_Never(without_check, error_code) == FALSE

\* ----------------------------------------------------------- send_order
\* the risk gate of send_order
RiskRefuses(without_check, error_code) ==
  ~without_check /\ error_code # NO_ERROR

\* mutant: the failed send is reported with the broker-rejection code
gateway_send_failed_WrongCode(map, next, id, checked, without_check) ==
  SendResult(id, map,
             checked \o <<Call("gateway.send_order", id, 0),
                          Call("risk.on_order_rejected", id, ERR_REJECTED)>>,
             next + 1, without_check)

\* the branch taken when gateway_->send_order(req) returns false
gateway_send_failed(map, next, id, checked, without_check) ==
  SendResult(id, map,
             checked \o <<Call("gateway.send_order", id, 0),
                          Call("risk.on_order_rejected", id, ERR_SEND_FAILED)>>,
             next + 1, without_check)

send_order(map, next, cmd, verdict, gw_ok) ==
  LET req == cmd.order_req IN
  IF req.ticker_index \notin Tickers
  THEN SendResult(0, map, <<>>, next, req.without_check)
  ELSE
    LET id == next
        order == NewOrder(id, req.ticker_index, req.volume)
        error_code == check_order_req(order, verdict)
        checked == IF req.without_check THEN <<>>
                   ELSE <<Call("risk.check_order_req", id, error_code)>>
    IN
    IF RiskRefuses(req.without_check, error_code)
    THEN SendResult(id, map,
                    checked \o <<Call("risk.on_order_rejected", id, error_code)>>,
                    next + 1, req.without_check)
    ELSE IF ~gw_ok
    THEN gateway_send_failed(map, next, id, checked, req.without_check)
    ELSE SendResult(id, Emplace(map, id, order),
                    checked \o <<Call("gateway.send_order", id, 1),
                                 Call("map.emplace", id, 0),
                                 Call("risk.on_order_sent", id, 0)>>,
                    next + 1, req.without_check)

\* --------------------------------------------------- commands: cancels
\* mutant: the id of the command is looked up as an engine order id and the
\* order_id stored in that order is what the gateway gets
cancel_order_Lookup(map, next, order_id) ==
  Result("cancel_order", 0, map,
         <<Call("gateway.cancel_order", 0,
                IF order_id \in DOMAIN map THEN map[order_id].order_id
                ELSE order_id)>>, next)

\* cancel_order hands the id of the command to the gateway; no lock, no lookup
cancel_order(map, next, order_id) ==
  Result("cancel_order", 0, map,
         <<Call("gateway.cancel_order", 0, order_id)>>, next)

RECURSIVE CancelCalls(_, _)
\* one gateway.cancel_order(order.order_id) per order of ids, in key order
CancelCalls(map, ids) ==
  IF ids = {} THEN <<>>
  ELSE LET e == CHOOSE x \in ids : \A y \in ids : x <= y
       IN <<Call("gateway.cancel_order", e, map[e].order_id)>>
            \o CancelCalls(map, ids \ {e})

\* mutant: the scan does not compare the contract
cancel_for_ticker_All(map, next, ticker_index) ==
  Result("cancel_for_ticker", 0, map, CancelCalls(map, DOMAIN map), next)

cancel_for_ticker(map, next, ticker_index) ==
  Result("cancel_for_ticker", 0, map,
         CancelCalls(map, {e \in DOMAIN map : map[e].req.contract = ticker_index}),
         next)

cancel_all(map, next) ==
  Result("cancel_all", 0, map, CancelCalls(map, DOMAIN map), next)

\* ------------------------------------------------------------ execute_cmd
\* mutant: the magic of the command is not looked at
execute_cmd_NoMagicCheck(map, next, cmd, verdict, gw_ok) ==
  CASE cmd.type = CMD_NEW_ORDER -> send_order(map, next, cmd, verdict, gw_ok)
    [] cmd.type = CMD_CANCEL_ORDER ->
         cancel_order(map, next, cmd.cancel_req.order_id)
    [] cmd.type = CMD_CANCEL_TICKER ->
         cancel_for_ticker(map, next, cmd.cancel_ticker_req.ticker_index)
    [] cmd.type = CMD_CANCEL_ALL -> cancel_all(map, next)
    [] OTHER -> Result("execute_cmd", 0, map, <<>>, next)

execute_cmd(map, next, cmd, verdict, gw_ok) ==
  IF cmd.magic # TRADER_CMD_MAGIC
  THEN Result("execute_cmd", 0, map, <<>>, next)
  ELSE CASE cmd.type = CMD_NEW_ORDER -> send_order(map, next, cmd, verdict, gw_ok)
         [] cmd.type = CMD_CANCEL_ORDER ->
              cancel_order(map, next, cmd.cancel_req.order_id)
         [] cmd.type = CMD_CANCEL_TICKER ->
              cancel_for_ticker(map, next, cmd.cancel_ticker_req.ticker_index)
         [] cmd.type = CMD_CANCEL_ALL -> cancel_all(map, next)
         [] OTHER -> Result("execute_cmd", 0, map, <<>>, next)

\* TraderCommand: the union payload is the three requests side by side
Command(magic, type, ticker, volume, without_check, order_id) ==
  [magic |-> magic, type |-> type,
   order_req |-> [ticker_index |-> ticker, volume |-> volume,
                  without_check |-> without_check],
   cancel_req |-> [order_id |-> order_id],
   cancel_ticker_req |-> [ticker_index |-> ticker]]

\* mutant: the lookup is order_map_[id], which inserts an empty Order
OrderNotFound_Inserts(op, map, next, id) ==
  Result(op, id, Emplace(map, id, NewOrder(0, NoTicker, 0)), <<>>, next)

\* ------------------------------------------------------ gateway callbacks
\* the "Order not found" branch at the head of every order callback
OrderNotFound(op, map, next, id) == Result(op, id, map, <<>>, next)

on_order_accepted(map, next, rsp) ==
  LET id == rsp.engine_order_id IN
  IF id \notin DOMAIN map THEN OrderNotFound("on_order_accepted", map, next, id)
  ELSE IF map[id].accepted
  THEN Result("on_order_accepted", id, map, <<>>, next)
  ELSE Result("on_order_accepted", id,
              [map EXCEPT ![id].order_id = rsp.order_id, ![id].accepted = TRUE],
              <<Call("risk.on_order_accepted", id, 0)>>, next)

\* mutant: a rejection of an order already accepted is ignored
on_order_rejected_UnacceptedOnly(map, next, rsp) ==
  LET id == rsp.engine_order_id IN
  IF id \notin DOMAIN map \/ map[id].accepted
  THEN Result("on_order_rejected", id, map, <<>>, next)
  ELSE Result("on_order_rejected", id, Erase(map, id),
              <<Call("risk.on_order_rejected", id, ERR_REJECTED),
                Call("map.erase", id, 0)>>, next)

on_order_rejected(map, next, rsp) ==
  LET id == rsp.engine_order_id IN
  IF id \notin DOMAIN map THEN OrderNotFound("on_order_rejected", map, next, id)
  ELSE Result("on_order_rejected", id, Erase(map, id),
              <<Call("risk.on_order_rejected", id, ERR_REJECTED),
                Call("map.erase", id, 0)>>, next)

\* the terminal branch of on_secondary_market_traded and on_order_canceled:
\* on_order_completed, then the erase
order_completed(op, map, next, id, hooks) ==
  Result(op, id, Erase(map, id),
         hooks \o <<Call("risk.on_order_completed", id, 0),
                    Call("map.erase", id, 0)>>, next)

\* mutant: the trade handlers set accepted without calling the hook
AcceptOnTrade_Never(order) == <<>>

\* mutant: the trade handlers call the hook whether or not the order was accepted
AcceptOnTrade_Always(order) ==
  <<Call("risk.on_order_accepted", order.req.engine_order_id, 0)>>

\* the latch at the head of both trade handlers
AcceptOnTrade(order) ==
  IF ~order.accepted
  THEN <<Call("risk.on_order_accepted", order.req.engine_order_id, 0)>>
  ELSE <<>>

\* mutant: every primary-market trade type is booked and ends the order
on_primary_market_traded_AllTerminal(map, next, rsp) ==
  LET id == rsp.engine_order_id
      op == "on_primary_market_traded"
  IN
  IF id \notin DOMAIN map THEN OrderNotFound(op, map, next, id)
  ELSE Result(op, id, Erase(map, id),
              AcceptOnTrade(map[id]) \o <<Call("risk.on_order_traded", id, 0),
                                          Call("map.erase", id, 0)>>, next)

on_primary_market_traded(map, next, rsp) ==
  LET id == rsp.engine_order_id
      op == "on_primary_market_traded"
  IN
  IF id \notin DOMAIN map THEN OrderNotFound(op, map, next, id)
  ELSE
    LET latch == AcceptOnTrade(map[id])
        order == [map[id] EXCEPT !.accepted = TRUE, !.order_id = rsp.order_id]
    IN
    IF rsp.trade_type \in {"ACQUIRED_STOCK", "RELEASED_STOCK", "CASH_SUBSTITUTION"}
    THEN Result(op, id, [map EXCEPT ![id] = order],
                latch \o <<Call("risk.on_order_traded", id, 0)>>, next)
    ELSE IF rsp.trade_type = "PRIMARY_MARKET"
    THEN Result(op, id, Erase(map, id),
                latch \o <<Call("risk.on_order_traded", id, 0),
                           Call("map.erase", id, 0)>>, next)
    ELSE Result(op, id, [map EXCEPT ![id] = order], latch, next)

on_secondary_market_traded(map, next, rsp) ==
  LET id == rsp.engine_order_id
      op == "on_secondary_market_traded"
  IN
  IF id \notin DOMAIN map THEN OrderNotFound(op, map, next, id)
  ELSE
    LET latch == AcceptOnTrade(map[id])
        order == [map[id] EXCEPT
                    !.accepted = TRUE,
                    !.order_id = rsp.order_id,
                    !.traded_volume = map[id].traded_volume + rsp.volume]
        hooks == latch \o <<Call("risk.on_order_traded", id, 0)>>
    IN
    IF IsTerminal(order)
    THEN order_completed(op, map, next, id, hooks)
    ELSE Result(op, id, [map EXCEPT ![id] = order], hooks, next)

on_order_traded(map, next, rsp) ==
  IF rsp.trade_type = "SECONDARY_MARKET"
  THEN on_secondary_market_traded(map, next, rsp)
  ELSE on_primary_market_traded(map, next, rsp)

on_order_canceled(map, next, rsp) ==
  LET id == rsp.engine_order_id IN
  IF id \notin DOMAIN map THEN OrderNotFound("on_order_canceled", map, next, id)
  ELSE
    LET order == [map[id] EXCEPT !.canceled_volume = rsp.canceled_volume]
        hooks == <<Call("risk.on_order_canceled", id, rsp.canceled_volume)>>
    IN
    IF IsTerminal(order)
    THEN order_completed("on_order_canceled", map, next, id, hooks)
    ELSE Result("on_order_canceled", id, [map EXCEPT ![id] = order], hooks, next)

\* log only
on_order_cancel_rejected(map, next, rsp) ==
  Result("on_order_cancel_rejected", rsp.engine_order_id, map, <<>>, next)

\* ------------------------------------------------------------ the gateway
\* the orders a gateway.cancel_order call is about: the order the engine read
\* the id from, or the orders the broker knows under the id of the command
CancelTargets(map, call) ==
  IF call[2] # 0 THEN {call[2]}
  ELSE {e \in DOMAIN map : call[3] # NoBrokerId /\ map[e].order_id = call[3]}

CancelsIssued(map, calls) ==
  UNION {CancelTargets(map, calls[i]) : i \in {j \in DOMAIN calls :
                                          calls[j][1] = "gateway.cancel_order"}}

\* the broker's answer to a cancel it executes: the whole unfilled remainder
CanceledRsp(map, e) ==
  [engine_order_id |-> e,
   canceled_volume |-> map[e].req.volume - map[e].traded_volume]

\* ---------------------------------------------------------- command ring
te_user_id == 1                    \* static_cast<uint32_t>(version())
ForeignTag == te_user_id + 1       \* the owner tag of some other application
NoRing == [exists |-> FALSE, owner |-> 0, entries |-> <<>>, dropped |-> 0]

\* LFQueue_open(key, user_id): non-null when a ring is there under that tag
LFQueue_open(q, user_id) == q.exists /\ q.owner = user_id

\* LFQueue_create(key, user_id, ...): 0 and a new empty ring, or nonzero when
\* the key is taken or the segment cannot be made
LFQueue_create(q, user_id, shm_ok) ==
  IF q.exists \/ ~shm_ok
  THEN [res |-> 1, ring |-> q]
  ELSE [res |-> 0, ring |-> [exists |-> TRUE, owner |-> user_id,
                              entries |-> <<>>, dropped |-> 0]]

\* LFQueue_reset(queue): drops every entry (dropped: how many there were)
LFQueue_reset(q) == [q EXCEPT !.entries = <<>>, !.dropped = Len(q.entries)]

\* mutant: the consumer reads the ring as it found it
process_cmd_from_queue_NoReset(pc, q, shm_ok) ==
  CASE pc = "open" ->
         IF LFQueue_open(q, te_user_id) THEN [pc |-> "pop", ring |-> q]
         ELSE [pc |-> "create", ring |-> q]
    [] pc = "create" ->
         LET c == LFQueue_create(q, te_user_id, shm_ok) IN
         IF c.res # 0 THEN [pc |-> "aborted", ring |-> c.ring]
         ELSE [pc |-> "reopen", ring |-> c.ring]
    [] pc = "reopen" ->
         IF LFQueue_open(q, te_user_id) THEN [pc |-> "pop", ring |-> q]
         ELSE [pc |-> "aborted", ring |-> q]
    [] OTHER -> [pc |-> pc, ring |-> q]

\* process_cmd_from_queue up to its loop, one library call per step:
\* open, else create and open again, abort() when either fails; then reset
process_cmd_from_queue(pc, q, shm_ok) ==
  CASE pc = "open" ->
         IF LFQueue_open(q, te_user_id) THEN [pc |-> "reset", ring |-> q]
         ELSE [pc |-> "create", ring |-> q]
    [] pc = "create" ->
         LET c == LFQueue_create(q, te_user_id, shm_ok) IN
         IF c.res # 0 THEN [pc |-> "aborted", ring |-> c.ring]
         ELSE [pc |-> "reopen", ring |-> c.ring]
    [] pc = "reopen" ->
         IF LFQueue_open(q, te_user_id) THEN [pc |-> "reset", ring |-> q]
         ELSE [pc |-> "aborted", ring |-> q]
    [] pc = "reset" -> [pc |-> "pop", ring |-> LFQueue_reset(q)]
    [] OTHER -> [pc |-> pc, ring |-> q]

\* the command the dispatch thread runs for a handler
ThreadCmd(op) ==
  CASE op = "send_order" ->
         Command(TRADER_CMD_MAGIC, CMD_NEW_ORDER, 1, MaxVolume, FALSE, 0)
    [] op = "cancel_order" ->
         Command(TRADER_CMD_MAGIC, CMD_CANCEL_ORDER, 0, 0, FALSE, BrokerId(1))
    [] op = "cancel_for_ticker" ->
         Command(TRADER_CMD_MAGIC, CMD_CANCEL_TICKER, 1, 0, FALSE, 0)
    [] OTHER -> Command(TRADER_CMD_MAGIC, CMD_CANCEL_ALL, 0, 0, FALSE, 0)

\* the commands producers put on the ring: a new order, a cancel_all
RingCmds == {ThreadCmd("send_order"), ThreadCmd("cancel_all")}

\* an entry and whether it was there before the consumer opened the ring
RingEntries == [stale : BOOLEAN, cmd : RingCmds]

\* ------------------------------------------------------------------ state
\* process_cmd with cmd_queue_key_ <= 0: the commands come from the bus, one
\* execute_cmd per message pulled; no ring is opened
InitRedis ==
  /\ cq_pc = "redis"
  /\ ring = NoRing
  /\ executed = {}

\* ---------------------------------------------------------------- threads
DispatchThread == "dispatch"                 \* the thread in process_cmd
CallbackThreads == {"callback1", "callback2"}    \* threads of the gateway's driver
Threads == {DispatchThread} \cup CallbackThreads
Idle == [pc |-> "idle", op |-> "none", id |-> 0]
LoginAccount == 0                  \* account_ as the query of login left it
AccountInputs == {1, 2}            \* the snapshots later queries bring

\* on_query_account under the lock: account_ = *account
on_query_account(acct, rsp) == rsp

\* no handler running, the mutex free
InitThreads ==
  /\ th = [t \in Threads |-> Idle]
  /\ mutex = "free"
  /\ gw_known = {}
  /\ erased = {}
  /\ account = LoginAccount

InitEngine ==
  /\ order_map = [e \in {} |-> 0]
  /\ next_id = 1
  /\ last = [op |-> "login", eid |-> 0, calls |-> <<>>, bypass |-> FALSE]
  /\ n_accepted = [e \in EngineIds |-> 0]
  /\ n_completed = [e \in EngineIds |-> 0]
  /\ cancel_sum = [e \in EngineIds |-> 0]
  /\ gw_cancels = {}
  /\ cancel_rejected = {}
  /\ ca_targets = {}

Init == InitEngine /\ InitRedis /\ InitThreads

Engine(r) ==
  /\ order_map' = r.map
  /\ next_id' = r.next_id

\* the record of the handler's calls and the counts that follow from them
Observed(r) ==
  /\ last' = [op |-> r.op, eid |-> r.eid, calls |-> r.calls, bypass |-> r.bypass]
  /\ n_accepted' = [e \in EngineIds |->
        n_accepted[e] + Count(r.calls, "risk.on_order_accepted", e)]
  /\ n_completed' = [e \in EngineIds |->
        n_completed[e] + Count(r.calls, "risk.on_order_completed", e)]
  /\ cancel_sum' = [e \in EngineIds |->
        IF e \notin DOMAIN r.map THEN 0
        ELSE Min(MaxVolume + 1,
                 cancel_sum[e] + SumArgs(r.calls, "risk.on_order_canceled", e))]

\* The gateway's side of a step: the cancels the handler issued join the
\* unanswered ones, the answered ones leave; erased orders are forgotten.
Gateway(r, answered, rejected) ==
  LET issued == CancelsIssued(order_map, r.calls) IN
  /\ gw_cancels' = ((gw_cancels \ answered) \cup issued) \cap DOMAIN r.map
  /\ cancel_rejected' = ((cancel_rejected \cup rejected) \ issued)
                          \cap DOMAIN r.map
  /\ ca_targets' = IF r.op = "cancel_all" THEN DOMAIN order_map ELSE ca_targets

\* the handlers execute_cmd reaches, on the dispatch thread
CommandOps == {"execute_cmd", "send_order", "cancel_order", "cancel_for_ticker",
               "cancel_all"}

\* the handler returns: a command's return frees the dispatch thread for the
\* next command, a callback's return leaves it where it is
Returned(r) ==
  /\ th' = IF r.op \in CommandOps THEN [th EXCEPT ![DispatchThread] = Idle]
           ELSE th
  /\ UNCHANGED <<mutex, gw_known, erased, account>>

\* a handler's step, with its calls on record
Run(r) ==
  /\ Engine(r)
  /\ Observed(r)
  /\ Returned(r)
  /\ UNCHANGED <<gw_cancels, cancel_rejected, ca_targets, qvars>>

\* a handler's step, with the gateway's cancel queue on record
RunGw(r) ==
  /\ Engine(r)
  /\ Gateway(r, {}, {})
  /\ Returned(r)
  /\ UNCHANGED <<last, n_accepted, n_completed, cancel_sum, qvars>>

\* a handler's step on the side the specification keeps on record
Step(side, r) == IF side = "gateway" THEN RunGw(r) ELSE Run(r)

\* ------------------------------------------------------------------ steps
\* send_order before its lock: no contract, no id (0); else the id is taken
\* and the counter moves on, whatever happens behind the lock
send_order_unlocked(next, cmd) ==
  IF cmd.order_req.ticker_index \notin Tickers
  THEN [id |-> 0, next_id |-> next]
  ELSE [id |-> next, next_id |-> next + 1]

\* the dispatch thread is between two commands
DispatchIdle == th[DispatchThread].pc = "idle"

\* the dispatch thread holds id for an order and waits for the mutex
SendPending(id) ==
  /\ th[DispatchThread].pc = "lock"
  /\ th[DispatchThread].op = "send_order"
  /\ th[DispatchThread].id = id

\* send_order reaches its lock with the id it took; nothing else has changed
Entered(side, e) ==
  /\ th' = [th EXCEPT ![DispatchThread] =
              [pc |-> "lock", op |-> "send_order", id |-> e.id]]
  /\ next_id' = e.next_id
  /\ last' = IF side = "gateway" THEN last
             ELSE [op |-> "next_engine_order_id", eid |-> e.id, calls |-> <<>>,
                   bypass |-> FALSE]
  /\ UNCHANGED <<order_map, n_accepted, n_completed, cancel_sum, gw_cancels,
                 cancel_rejected, ca_targets, mutex, gw_known, erased, account>>

\* A new order arrives: execute_cmd and send_order down to the lock. Without a
\* contract send_order returns at once; with one it takes the id and waits for
\* the mutex, and the callbacks of the other threads may run before it gets it.
CmdNewOrder(side) ==
  /\ DispatchIdle
  /\ next_id <= MaxOrders
  /\ \E t \in TickerInputs, w \in BOOLEAN :
       LET cmd == Command(TRADER_CMD_MAGIC, CMD_NEW_ORDER, t, 1, w, 0)
           e == send_order_unlocked(next_id, cmd) IN
       IF e.id = 0
       THEN Step(side, execute_cmd(order_map, next_id, cmd, NO_ERROR, TRUE))
       ELSE Entered(side, e) /\ UNCHANGED qvars

\* send_order behind its lock, with the id taken before it: risk gate,
\* gateway, insertion. The command's fields are the message's; nothing shows
\* them before this step, so they are drawn here.
SendOrderLocked(side) ==
  /\ SendPending(th[DispatchThread].id)
  /\ \E t \in Tickers, v \in CmdVolumes, w \in BOOLEAN,
        verdict \in {NO_ERROR, ERR_FUND_NOT_ENOUGH}, gw_ok \in BOOLEAN :
       Step(side, execute_cmd(order_map, th[DispatchThread].id,
             Command(TRADER_CMD_MAGIC, CMD_NEW_ORDER, t, v, w, 0), verdict, gw_ok))

CmdCancelOrder(side) ==
  /\ DispatchIdle
  /\ \E o \in CancelIdInputs :
       Step(side, execute_cmd(order_map, next_id,
             Command(TRADER_CMD_MAGIC, CMD_CANCEL_ORDER, 0, 0, FALSE, o), NO_ERROR, TRUE))

CmdCancelTicker(side) ==
  /\ DispatchIdle
  /\ \E t \in Tickers :
       Step(side, execute_cmd(order_map, next_id,
             Command(TRADER_CMD_MAGIC, CMD_CANCEL_TICKER, t, 0, FALSE, 0), NO_ERROR, TRUE))

CmdCancelAll(side) ==
  /\ DispatchIdle
  /\ Step(side, execute_cmd(order_map, next_id,
           Command(TRADER_CMD_MAGIC, CMD_CANCEL_ALL, 0, 0, FALSE, 0), NO_ERROR, TRUE))

\* wrong magic with any type, or the right magic with a type outside the enum
CmdDropped(side) ==
  /\ DispatchIdle
  /\ \E m \in Magics, type \in CmdTypes :
       /\ m = TRADER_CMD_MAGIC =>
            type \notin {CMD_NEW_ORDER, CMD_CANCEL_ORDER, CMD_CANCEL_TICKER, CMD_CANCEL_ALL}
       /\ Step(side, execute_cmd(order_map, next_id, Command(m, type, 1, 1, TRUE, 1),
                         NO_ERROR, TRUE))

OnOrderAccepted(side) ==
  \E e \in EngineIds :
    Step(side, on_order_accepted(order_map, next_id,
          [engine_order_id |-> e, order_id |-> BrokerId(e)]))

OnOrderRejected(side) ==
  \E e \in EngineIds :
    Step(side, on_order_rejected(order_map, next_id, [engine_order_id |-> e]))

OnOrderTraded(side) ==
  \E e \in EngineIds, v \in RspVolumes, t \in TradeTypes :
    /\ e \in DOMAIN order_map =>
          order_map[e].traded_volume + v <= MaxTradedVolume
    /\ Step(side, on_order_traded(order_map, next_id,
            [engine_order_id |-> e, order_id |-> BrokerId(e),
             volume |-> v, trade_type |-> t]))

OnOrderCanceled(side) ==
  \E e \in EngineIds, v \in RspVolumes :
    Step(side, on_order_canceled(order_map, next_id,
          [engine_order_id |-> e, canceled_volume |-> v]))

OnOrderCancelRejected(side) ==
  \E e \in EngineIds :
    Step(side, on_order_cancel_rejected(order_map, next_id, [engine_order_id |-> e]))

Next ==
  \/ CmdNewOrder("calls")
  \/ SendOrderLocked("calls")
  \/ CmdCancelOrder("calls")
  \/ CmdCancelTicker("calls")
  \/ CmdCancelAll("calls")
  \/ CmdDropped("calls")
  \/ OnOrderAccepted("calls")
  \/ OnOrderRejected("calls")
  \/ OnOrderTraded("calls")
  \/ OnOrderCanceled("calls")
  \/ OnOrderCancelRejected("calls")

Spec == Init /\ [][Next]_vars

\* the gateway answers a pending cancel: the broker cancels what is unfilled
GatewayCancelDone ==
  \E e \in gw_cancels :
    LET r == on_order_canceled(order_map, next_id, CanceledRsp(order_map, e)) IN
    /\ Engine(r)
    /\ Gateway(r, {e}, {})
    /\ UNCHANGED <<last, n_accepted, n_completed, cancel_sum, qvars, tvars>>

\* the gateway answers a pending cancel: the broker refuses it
GatewayCancelRejected ==
  \E e \in gw_cancels :
    LET r == on_order_cancel_rejected(order_map, next_id, [engine_order_id |-> e]) IN
    /\ Engine(r)
    /\ Gateway(r, {e}, {e})
    /\ UNCHANGED <<last, n_accepted, n_completed, cancel_sum, qvars, tvars>>

NextGateway ==
  \/ CmdNewOrder("gateway")
  \/ SendOrderLocked("gateway")
  \/ CmdCancelOrder("gateway")
  \/ CmdCancelTicker("gateway")
  \/ CmdCancelAll("gateway")
  \/ OnOrderAccepted("gateway")
  \/ OnOrderRejected("gateway")
  \/ OnOrderTraded("gateway")
  \/ OnOrderCanceled("gateway")
  \/ GatewayCancelDone
  \/ GatewayCancelRejected

\* The same engine, with the gateway's cancel queue on record instead of the
\* calls. Dropped commands and cancel rejections outside the queue change
\* nothing the queue or the registry holds, so they are stuttering steps here.
SpecGateway == Init /\ [][NextGateway]_vars

ObservedNothing ==
  UNCHANGED <<last, n_accepted, n_completed, cancel_sum,
              gw_cancels, cancel_rejected, ca_targets>>

\* ------------------------------------- the handlers as threads run them
\* the handlers that read or write order_map_ or an Order in it
TouchesRegistry == {"send_order", "cancel_for_ticker", "cancel_all",
                    "on_order_accepted", "on_order_rejected",
                    "on_order_traded", "on_order_canceled"}

\* the handlers that call the gateway, all of them from the dispatch thread
CallsGateway == {"send_order", "cancel_order", "cancel_for_ticker", "cancel_all"}

DispatchOps == {"send_order", "cancel_order", "cancel_for_ticker", "cancel_all"}

DriverOps == {"on_order_accepted", "on_order_rejected", "on_order_traded",
              "on_order_canceled", "on_order_cancel_rejected"}

\* mutant: the order callbacks run without the mutex
LockScope_CommandsOnly(op) ==
  CASE op = "send_order" -> {"body", "sent"}
    [] op \in {"cancel_for_ticker", "cancel_all", "on_query_account"} -> {"body"}
    [] OTHER -> {}

\* mutant: send_order unlocks once gateway_->send_order has returned
LockScope_SendUnlocksEarly(op) ==
  CASE op \in {"send_order", "cancel_for_ticker", "cancel_all",
               "on_order_accepted", "on_order_rejected", "on_order_traded",
               "on_order_canceled", "on_query_account"} -> {"body"}
    [] OTHER -> {}

\* The positions of a handler at which it holds mutex_. "body": from the
\* unique_lock to the handler's gateway call or to its return; "sent": in
\* send_order, from the return of gateway_->send_order to the emplace and
\* on_order_sent. cancel_order and on_order_cancel_rejected take no lock.
LockScope(op) ==
  CASE op = "send_order" -> {"body", "sent"}
    [] op \in {"cancel_for_ticker", "cancel_all", "on_order_accepted",
               "on_order_rejected", "on_order_traded", "on_order_canceled",
               "on_query_account"}
         -> {"body"}
    [] OTHER -> {}

\* mutant: a gateway call returns only once the driver has delivered its
\* callbacks to the engine
GatewayReturns_AfterDelivery(waiting) == waiting = {}

\* gateway send_order and cancel_order push to the driver's queue and return,
\* whatever callbacks wait for the engine
GatewayReturns(waiting) == TRUE

\* what the handler a thread runs does to the registry as it stands
HandlerResult(op, id, map, next, verdict, gw_ok) ==
  CASE op = "send_order" ->      \* with the id taken before the lock
         execute_cmd(map, id, ThreadCmd(op), verdict, gw_ok)
    [] op \in DispatchOps -> execute_cmd(map, next, ThreadCmd(op), verdict, gw_ok)
    [] op = "on_query_account" -> Result(op, 0, map, <<>>, next)
    [] op = "on_order_accepted" ->
         on_order_accepted(map, next,
            [engine_order_id |-> id, order_id |-> BrokerId(id)])
    [] op = "on_order_rejected" ->
         on_order_rejected(map, next, [engine_order_id |-> id])
    [] op = "on_order_traded" ->
         on_order_traded(map, next,
            [engine_order_id |-> id, order_id |-> BrokerId(id), volume |-> 1,
             trade_type |-> "SECONDARY_MARKET"])
    [] op = "on_order_canceled" ->
         on_order_canceled(map, next,
            [engine_order_id |-> id, canceled_volume |-> 1])
    [] OTHER -> on_order_cancel_rejected(map, next, [engine_order_id |-> id])

\* where a handler stands once its body has run: send_order with the order
\* at the gateway goes on to the insertion, on_query_account to its log line
\* (after lock.unlock()), every other path returns
AfterBody(op, sent) ==
  IF sent THEN "sent"
  ELSE IF op = "on_query_account" THEN "log" ELSE "idle"

\* the mutex after thread t has moved to position pc of handler op
Unlocked(t, pc, op) ==
  IF pc \in LockScope(op) THEN mutex
  ELSE IF mutex = t THEN "free" ELSE mutex

EngineOnly == ObservedNothing /\ UNCHANGED qvars

\* execute_cmd hands the command pulled from the bus to its handler.
\* send_order runs up to its lock: the contract is found,
\* next_engine_order_id() gives the id and the Order is filled in, all before
\* the mutex is asked for.
DispatchCall ==
  /\ DispatchIdle
  /\ \E op \in DispatchOps :
       LET e == IF op = "send_order"
                THEN send_order_unlocked(next_id, ThreadCmd(op))
                ELSE [id |-> 0, next_id |-> next_id] IN
       /\ op = "send_order" => next_id <= MaxOrders
       /\ th' = [th EXCEPT ![DispatchThread] =
                  [pc |-> IF "body" \in LockScope(op) THEN "lock" ELSE "body",
                   op |-> op, id |-> e.id]]
       /\ next_id' = e.next_id
  /\ UNCHANGED <<order_map, mutex, gw_known, erased, account>>
  /\ EngineOnly

\* the driver delivers a callback for an order the gateway was given
CallbackCall ==
  \E t \in CallbackThreads, op \in DriverOps, id \in gw_known :
    /\ th[t].pc = "idle"
    /\ th' = [th EXCEPT ![t] =
               [pc |-> IF "body" \in LockScope(op) THEN "lock" ELSE "body",
                op |-> op, id |-> id]]
    /\ UNCHANGED <<order_map, next_id, mutex, gw_known, erased, account>>
    /\ EngineOnly

\* the driver delivers the answer to a query_account; id holds the snapshot
QueryAccountCall ==
  \E t \in CallbackThreads, a \in AccountInputs :
    /\ th[t].pc = "idle"
    /\ th' = [th EXCEPT ![t] =
               [pc |-> "lock", op |-> "on_query_account", id |-> a]]
    /\ UNCHANGED <<order_map, next_id, mutex, gw_known, erased, account>>
    /\ EngineOnly

\* std::unique_lock<std::mutex> lock(mutex_)
Acquire(t) ==
  /\ th[t].pc = "lock"
  /\ mutex = "free"
  /\ mutex' = t
  /\ th' = [th EXCEPT ![t].pc = "body"]
  /\ UNCHANGED <<order_map, next_id, gw_known, erased, account>>
  /\ EngineOnly

\* The handler's body. send_order stops after gateway_->send_order returned
\* true, the order known to the gateway and not yet in the registry; every
\* other path runs to the handler's return.
Body(t) ==
  /\ th[t].pc = "body"
  /\ th[t].op \in CallsGateway =>
       GatewayReturns({c \in CallbackThreads : th[c].pc = "lock"})
  /\ \E verdict \in {NO_ERROR, ERR_FUND_NOT_ENOUGH}, gw_ok \in BOOLEAN :
       LET op == th[t].op
           r == HandlerResult(op, th[t].id, order_map, next_id, verdict, gw_ok)
           sent == op = "send_order" /\ r.map # order_map
       IN
       /\ order_map' = IF sent THEN order_map ELSE r.map
       /\ next_id' = IF op = "send_order" THEN next_id ELSE r.next_id
       /\ gw_known' = IF sent THEN gw_known \cup {r.eid} ELSE gw_known
       /\ erased' = erased \cup (DOMAIN order_map \ DOMAIN r.map)
       /\ account' = IF op = "on_query_account"
                     THEN on_query_account(account, th[t].id) ELSE account
       /\ th' = [th EXCEPT ![t] =
                  IF AfterBody(op, sent) = "idle" THEN Idle
                  ELSE [th[t] EXCEPT !.pc = AfterBody(op, sent)]]
       /\ mutex' = Unlocked(t, AfterBody(op, sent), op)
  /\ EngineOnly

\* send_order after the gateway call: emplace, on_order_sent, return
Insert(t) ==
  /\ th[t].pc = "sent"
  /\ order_map' = HandlerResult("send_order", th[t].id, order_map, next_id,
                                NO_ERROR, TRUE).map
  /\ th' = [th EXCEPT ![t] = Idle]
  /\ mutex' = Unlocked(t, "idle", th[t].op)
  /\ UNCHANGED <<next_id, gw_known, erased, account>>
  /\ EngineOnly

\* on_query_account after lock.unlock(): the log line, then the return
AccountLogged ==
  \E t \in CallbackThreads :
    /\ th[t].pc = "log"
    /\ th' = [th EXCEPT ![t] = Idle]
    /\ UNCHANGED <<order_map, next_id, mutex, gw_known, erased, account>>
    /\ EngineOnly

AcquireMutex == \E t \in Threads : Acquire(t)
RunBody == \E t \in Threads : Body(t)
InsertOrder == \E t \in Threads : Insert(t)

NextThreads ==
  \/ DispatchCall
  \/ CallbackCall
  \/ QueryAccountCall
  \/ AccountLogged
  \/ AcquireMutex
  \/ RunBody
  \/ InsertOrder

SpecThreads == Init /\ [][NextThreads]_vars

\* a thread that is in a handler and not waiting for the mutex keeps running
SpecThreadsFair ==
  SpecThreads /\ \A t \in Threads : WF_vars(Body(t) \/ Insert(t))

\* -------------------------------------------- the ring path, from start-up
\* the key is free, or holds a ring of this engine or of another application,
\* with whatever its producers left on it
InitRing ==
  /\ InitEngine
  /\ InitThreads
  /\ cq_pc = "open"
  /\ executed = {}
  /\ \/ ring = NoRing
     \/ \E owner \in {te_user_id, ForeignTag}, c \in RingCmds, n \in 0 .. MaxRing :
          ring = [exists |-> TRUE, owner |-> owner,
                  entries |-> [i \in 1 .. n |-> [stale |-> TRUE, cmd |-> c]],
                  dropped |-> 0]

\* one step of the attach sequence
QueueAttach ==
  /\ cq_pc \in {"open", "create", "reopen", "reset"}
  /\ \E shm_ok \in BOOLEAN :
       LET a == process_cmd_from_queue(cq_pc, ring, shm_ok) IN
       /\ cq_pc' = a.pc
       /\ ring' = a.ring
  /\ UNCHANGED <<order_map, next_id, executed>>
  /\ ObservedNothing
  /\ UNCHANGED tvars

\* The loop: LFQueue_pop takes the oldest entry off the ring and execute_cmd
\* runs it down to the handler's lock: send_order with its id taken (203),
\* cancel_all at its first line (251). Producers and callbacks run meanwhile.
QueuePop ==
  /\ cq_pc = "pop"
  /\ DispatchIdle
  /\ ring.entries # <<>>
  /\ LET entry == Head(ring.entries) IN
     /\ entry.cmd.type = CMD_NEW_ORDER => next_id <= MaxOrders
     /\ executed' = executed \cup {entry}
     /\ ring' = [ring EXCEPT !.entries = Tail(ring.entries)]
     /\ IF entry.cmd.type = CMD_NEW_ORDER
        THEN Entered("calls", send_order_unlocked(next_id, entry.cmd))
        ELSE /\ th' = [th EXCEPT ![DispatchThread] =
                         [pc |-> "lock", op |-> "cancel_all", id |-> 0]]
             /\ ObservedNothing
             /\ UNCHANGED <<order_map, next_id, mutex, gw_known, erased, account>>
  /\ UNCHANGED cq_pc

\* the popped command's handler behind its lock, to its return and back to
\* LFQueue_pop, its calls on record
QueueExecute ==
  /\ cq_pc = "pop"
  /\ th[DispatchThread].pc = "lock"
  /\ \E verdict \in {NO_ERROR, ERR_FUND_NOT_ENOUGH}, gw_ok \in BOOLEAN :
       Run(HandlerResult(th[DispatchThread].op, th[DispatchThread].id,
                         order_map, next_id, verdict, gw_ok))

\* a producer puts a command on the ring
Produce ==
  /\ cq_pc # "aborted"
  /\ ring.exists
  /\ Len(ring.entries) < MaxRing
  /\ \E c \in RingCmds :
       ring' = [ring EXCEPT !.entries =
                  Append(ring.entries,
                         [stale |-> cq_pc \in {"open", "create", "reopen"},
                          cmd |-> c])]
  /\ UNCHANGED <<order_map, next_id, cq_pc, executed>>
  /\ ObservedNothing
  /\ UNCHANGED tvars

\* another application takes the free key
ForeignCreate ==
  /\ cq_pc \in {"open", "create", "reopen"}
  /\ ring' = LFQueue_create(ring, ForeignTag, TRUE).ring
  /\ ring' # ring
  /\ UNCHANGED <<order_map, next_id, cq_pc, executed>>
  /\ ObservedNothing
  /\ UNCHANGED tvars

\* the operator frees the key (ipcrm) while the engine is not attached
IpcRm ==
  /\ cq_pc \in {"open", "create", "reopen"}
  /\ ring.exists
  /\ ring' = NoRing
  /\ UNCHANGED <<order_map, next_id, cq_pc, executed>>
  /\ ObservedNothing
  /\ UNCHANGED tvars

NextRing ==
  \/ QueueAttach
  \/ QueuePop
  \/ QueueExecute
  \/ OnOrderAccepted("calls")
  \/ OnOrderRejected("calls")
  \/ OnOrderTraded("calls")
  \/ OnOrderCanceled("calls")
  \/ OnOrderCancelRejected("calls")
  \/ Produce
  \/ ForeignCreate
  \/ IpcRm

SpecRing == InitRing /\ [][NextRing]_vars

\* ================================================================ claims
\* the terminal condition as the claims state it
VolumesExhausted(order) ==
  order.traded_volume + order.canceled_volume = order.req.volume

CallbackOps == {"on_order_accepted", "on_order_rejected",
                "on_primary_market_traded", "on_secondary_market_traded",
                "on_order_canceled"}

Erased(calls, id) == Count(calls, "map.erase", id) = 1

\* C1: once the volumes of the secondary-market trade callbacks and of the
\* cancel callbacks delivered for an order add up to its req.volume, the order
\* is out of the registry, and the trade or cancel callback that removed it
\* made the one and only on_order_completed call for it.
C1_SummedVolumesComplete ==
  /\ \A e \in DOMAIN order_map :
        order_map[e].req.volume > 0 =>
          order_map[e].traded_volume + cancel_sum[e] # order_map[e].req.volume
  /\ (last.op \in {"on_secondary_market_traded", "on_order_canceled"}
        /\ Erased(last.calls, last.eid)) => n_completed[last.eid] = 1

\* C2: every order in the registry has 0 <= traded_volume + canceled_volume
\* <= req.volume.
C2_VolumeBounds ==
  \A e \in DOMAIN order_map :
    /\ 0 <= order_map[e].traded_volume + order_map[e].canceled_volume
    /\ order_map[e].traded_volume + order_map[e].canceled_volume
          <= order_map[e].req.volume

\* C4: every order in the registry with accepted set has left status SUBMITTING.
C4_AcceptedLeavesSubmitting ==
  \A e \in DOMAIN order_map :
    order_map[e].accepted => order_map[e].status # "SUBMITTING"

\* C5: a handler that erases an order on a terminal transition (a secondary
\* trade or a cancel reaching req.volume, or a PRIMARY_MARKET trade) calls
\* on_order_completed for it exactly once, before the erase.
C5_CompletedBeforeErase ==
  (last.op \in {"on_secondary_market_traded", "on_order_canceled",
                "on_primary_market_traded"}
     /\ Erased(last.calls, last.eid)) =>
    /\ Count(last.calls, "risk.on_order_completed", last.eid) = 1
    /\ Index(last.calls, "risk.on_order_completed") < Index(last.calls, "map.erase")

\* C6: with the engine mutex free, no order in the registry has
\* traded_volume + canceled_volume = req.volume, whatever send_order inserted.
C6_NoTerminalOrderInRegistry ==
  \A e \in DOMAIN order_map : ~VolumesExhausted(order_map[e])

\* C6 as amended: no order in the registry with a nonzero req.volume has
\* traded_volume + canceled_volume = req.volume.
C6_NoTerminalNonzeroOrder ==
  \A e \in DOMAIN order_map :
    order_map[e].req.volume # 0 => ~VolumesExhausted(order_map[e])

C6_Witness ==
  /\ last.op = "on_secondary_market_traded"
  /\ last.eid \in DOMAIN order_map
  /\ order_map[last.eid].req.volume = 2
  /\ order_map[last.eid].traded_volume = 1
  /\ last.eid + 1 < next_id
  /\ n_completed[last.eid + 1] = 1

\* C3: the first on_order_accepted or trade callback for an order in the
\* registry sets accepted and calls RiskManager.on_order_accepted; accepted
\* never goes back; the hook is called once per order, ever; a later
\* on_order_accepted changes nothing and calls nothing.
C3_Step ==
  /\ \A e \in EngineIds : n_accepted'[e] <= 1
  /\ \A e \in EngineIds \ DOMAIN order_map :
        Count(last'.calls, "risk.on_order_accepted", e) = 0
  /\ \A e \in DOMAIN order_map :
        LET o == order_map[e]
            hook == Count(last'.calls, "risk.on_order_accepted", e)
        IN
        /\ (o.accepted /\ e \in DOMAIN order_map') => order_map'[e].accepted
        /\ IF last'.eid = e /\ last'.op \in {"on_order_accepted",
                  "on_secondary_market_traded", "on_primary_market_traded"}
           THEN /\ hook = (IF o.accepted THEN 0 ELSE 1)
                /\ n_accepted'[e] = 1
                /\ e \in DOMAIN order_map' => order_map'[e].accepted
                /\ (last'.op = "on_order_accepted" /\ o.accepted) =>
                      (order_map' = order_map /\ last'.calls = <<>>)
           ELSE hook = 0

C3_AcceptLatch == [][C3_Step]_vars

C3_Witness ==
  \E e \in DOMAIN order_map :
    /\ order_map[e].accepted
    /\ order_map[e].traded_volume > 0
    /\ n_accepted[e] = 1
    /\ last.op = "on_order_accepted" /\ last.eid = e /\ last.calls = <<>>

\* C8: a callback for an engine_order_id that is not in the registry leaves
\* the registry as it was and makes no call; no callback puts an id into the
\* registry, and an id that was handed out and is not in the registry never
\* comes back into it (the id a send_order holds at its lock has yet to enter).
C8_Step ==
  /\ (last'.op \in CallbackOps /\ last'.eid \notin DOMAIN order_map) =>
       (order_map' = order_map /\ last'.calls = <<>>)
  /\ last'.op \in CallbackOps => DOMAIN order_map' \subseteq DOMAIN order_map
  /\ \A e \in EngineIds :
       (e < next_id /\ e \notin DOMAIN order_map /\ ~SendPending(e))
          => e \notin DOMAIN order_map'

C8_UnknownIdDropped == [][C8_Step]_vars

C8_Witness ==
  /\ last.op \in CallbackOps \ {"on_order_accepted"}
  /\ last.calls = <<>>
  /\ last.eid \notin DOMAIN order_map
  /\ n_completed[last.eid] = 1
  /\ order_map # <<>>

\* C9: when send_order runs check_order_req and it returns a nonzero code, the
\* handler calls on_order_rejected once with that code and nothing else: no
\* gateway.send_order, no on_order_sent, the registry unchanged.
C9_Step ==
  (last'.op = "send_order"
     /\ \E i \in DOMAIN last'.calls :
          last'.calls[i][1] = "risk.check_order_req"
            /\ last'.calls[i][3] # NO_ERROR) =>
    /\ ~last'.bypass
    /\ Len(last'.calls) = 2
    /\ last'.calls[1][1] = "risk.check_order_req"
    /\ last'.calls[2] = Call("risk.on_order_rejected", last'.eid, last'.calls[1][3])
    /\ order_map' = order_map

C9_RiskRefusalRejects == [][C9_Step]_vars

C9_Witness ==
  /\ last.op = "send_order"
  /\ last.calls = <<Call("risk.check_order_req", last.eid, ERR_FUND_NOT_ENOUGH),
                    Call("risk.on_order_rejected", last.eid, ERR_FUND_NOT_ENOUGH)>>
  /\ order_map # <<>>

SendFailedStep ==
  (\E i \in DOMAIN last'.calls :
      last'.calls[i][1] = "gateway.send_order" /\ last'.calls[i][3] = 0) =>
    /\ Count(last'.calls, "risk.on_order_rejected", last'.eid) = 1
    /\ last'.calls[Len(last'.calls)]
          = Call("risk.on_order_rejected", last'.eid, ERR_SEND_FAILED)
    /\ CountAny(last'.calls, "risk.on_order_sent") = 0
    /\ order_map' = order_map

\* C10: a new-order command with without_check set is not risk-checked and is
\* sent to the gateway; whenever gateway.send_order returns false,
\* on_order_rejected gets ERR_SEND_FAILED, on_order_sent is not called and the
\* registry is unchanged.
C10_BypassAlwaysSends ==
  [][/\ (last'.op = "send_order" /\ last'.bypass) =>
          /\ CountAny(last'.calls, "risk.check_order_req") = 0
          /\ CountAny(last'.calls, "gateway.send_order") = 1
     /\ SendFailedStep]_vars

\* C10 as amended: the same for a command whose ticker_index the contract
\* table resolves; for one it does not resolve send_order returns at once,
\* with no risk call, no gateway call and the registry unchanged.
C10_BypassSendsKnownContract ==
  [][/\ (last'.op = "send_order" /\ last'.bypass /\ last'.eid # 0) =>
          /\ CountAny(last'.calls, "risk.check_order_req") = 0
          /\ CountAny(last'.calls, "gateway.send_order") = 1
     /\ (last'.op = "send_order" /\ last'.eid = 0) =>
          (last'.calls = <<>> /\ order_map' = order_map)
     /\ SendFailedStep]_vars

C10_Witness ==
  /\ last.op = "send_order"
  /\ last.bypass
  /\ last.calls = <<Call("gateway.send_order", last.eid, 0),
                    Call("risk.on_order_rejected", last.eid, ERR_SEND_FAILED)>>
  /\ order_map # <<>>

\* ------------------------------------------------- claims under SpecGateway
Drained == ca_targets # {} /\ gw_cancels \cap ca_targets = {}

\* C7: once the gateway has answered every cancel of a cancel_all, none of the
\* orders cancel_all found is left in the registry.
C7_CancelAllEmpties ==
  Drained => ca_targets \cap DOMAIN order_map = {}

\* C7 as amended: once the gateway has answered every cancel of a cancel_all,
\* the orders cancel_all found that are still in the registry are those whose
\* cancel the gateway rejected.
C7_CancelAllLeavesRejected ==
  Drained => (ca_targets \cap DOMAIN order_map) \subseteq cancel_rejected

C7_Witness ==
  /\ Drained
  /\ Cardinality(ca_targets) = 2
  /\ Cardinality(ca_targets \cap DOMAIN order_map) = 1
  /\ ca_targets \cap DOMAIN order_map \subseteq cancel_rejected

\* ------------------------------------------------------- claims C11 .. C16
\* the registry without order id, every other order as it was
Without(map, id) == [e \in DOMAIN map \ {id} |-> map[e]]

\* C11: on_order_rejected for an id in the registry calls
\* RiskManager.on_order_rejected(order, ERR_REJECTED) exactly once and erases
\* the order whatever its accepted flag and volumes; the order is then absent
\* and every other order is unchanged.
C11_RejectedErased ==
  \A e \in DOMAIN order_map :
    LET r == on_order_rejected(order_map, next_id, [engine_order_id |-> e]) IN
    /\ CountAny(r.calls, "risk.on_order_rejected") = 1
    /\ \E i \in DOMAIN r.calls :
          r.calls[i] = Call("risk.on_order_rejected", e, ERR_REJECTED)
    /\ e \notin DOMAIN r.map
    /\ r.map = Without(order_map, e)
    /\ r.next_id = next_id

C11_Witness ==
  /\ last.op = "on_order_rejected"
  /\ Erased(last.calls, last.eid)
  /\ n_accepted[last.eid] = 1
  /\ last.eid \notin DOMAIN order_map
  /\ \E e \in DOMAIN order_map : order_map[e].traded_volume > 0

\* C12: a command with a wrong magic, or with a type outside NEW_ORDER,
\* CANCEL_ORDER, CANCEL_TICKER and CANCEL_ALL, leaves the registry unchanged,
\* makes no gateway call and calls no risk hook, whatever its payload.
C12_BadCommandDropped ==
  \A m \in Magics, type \in CmdTypes, t \in Tickers, w \in BOOLEAN,
     o \in CancelIdInputs :
    (m # TRADER_CMD_MAGIC
       \/ type \notin {CMD_NEW_ORDER, CMD_CANCEL_ORDER, CMD_CANCEL_TICKER,
                        CMD_CANCEL_ALL}) =>
      LET r == execute_cmd(order_map, next_id,
                           Command(m, type, t, MaxVolume, w, o), NO_ERROR, TRUE)
      IN /\ r.map = order_map
         /\ r.next_id = next_id
         /\ GatewayCalls(r.calls) = {}
         /\ RiskCalls(r.calls) = {}

C12_Witness ==
  /\ last.op = "execute_cmd"
  /\ last.calls = <<>>
  /\ Cardinality(DOMAIN order_map) = 2
  /\ next_id = 3

\* C14: a cancel command naming the engine_order_id of an order in the
\* registry makes exactly one gateway.cancel_order call, with the order_id
\* stored in that order, and changes nothing in the registry.
C14_CancelUsesStoredId ==
  \A e \in DOMAIN order_map :
    LET r == execute_cmd(order_map, next_id,
               Command(TRADER_CMD_MAGIC, CMD_CANCEL_ORDER, 0, 0, FALSE, e),
               NO_ERROR, TRUE)
    IN /\ Len(r.calls) = 1
       /\ r.calls[1][1] = "gateway.cancel_order"
       /\ r.calls[1][3] = order_map[e].order_id
       /\ r.map = order_map

\* C14 as amended: a cancel command makes exactly one gateway.cancel_order
\* call, with the id the command carries, whatever the registry holds, and
\* changes nothing in the registry.
C14_CancelPassesCommandId ==
  \A o \in CancelIdInputs \cup DOMAIN order_map :
    LET r == execute_cmd(order_map, next_id,
               Command(TRADER_CMD_MAGIC, CMD_CANCEL_ORDER, 0, 0, FALSE, o),
               NO_ERROR, TRUE)
    IN /\ r.calls = <<Call("gateway.cancel_order", 0, o)>>
       /\ r.map = order_map
       /\ r.next_id = next_id

C14_Witness ==
  /\ last.op = "cancel_order"
  /\ last.calls = <<Call("gateway.cancel_order", 0, 1)>>
  /\ 1 \in DOMAIN order_map
  /\ order_map[1].order_id = BrokerId(1)

\* C15: cancel_for_ticker(t) makes one gateway.cancel_order call for each
\* order of the registry whose contract index is t and none for the others,
\* cancel_all makes one for each order; each call carries the order_id stored
\* in its order; neither changes the registry.
C15_ScansCancelStoredIds ==
  /\ \A t \in TickerInputs :
       LET r == cancel_for_ticker(order_map, next_id, t)
           hit == {e \in DOMAIN order_map : order_map[e].req.contract = t}
       IN /\ Len(r.calls) = Cardinality(hit)
          /\ \A e \in hit :
                Count(r.calls, "gateway.cancel_order", e) = 1
                  /\ \E i \in DOMAIN r.calls :
                        r.calls[i] = Call("gateway.cancel_order", e,
                                          order_map[e].order_id)
          /\ r.map = order_map
          /\ r.next_id = next_id
  /\ LET r == cancel_all(order_map, next_id) IN
       /\ Len(r.calls) = Cardinality(DOMAIN order_map)
       /\ \A e \in DOMAIN order_map :
             Count(r.calls, "gateway.cancel_order", e) = 1
               /\ \E i \in DOMAIN r.calls :
                     r.calls[i] = Call("gateway.cancel_order", e,
                                       order_map[e].order_id)
       /\ r.map = order_map
       /\ r.next_id = next_id

C15_Witness ==
  /\ last.op = "cancel_for_ticker"
  /\ Cardinality(DOMAIN order_map) = 2
  /\ \E e \in DOMAIN order_map :
       last.calls = <<Call("gateway.cancel_order", e, BrokerId(e))>>

\* C16: an on_order_traded callback with a primary-market trade type for an
\* order in the registry calls RiskManager.on_order_traded exactly once; the
\* order is erased if and only if the type is PRIMARY_MARKET; for
\* ACQUIRED_STOCK, RELEASED_STOCK and CASH_SUBSTITUTION it stays, with its
\* traded_volume and canceled_volume as they were.
C16_PrimaryMarketTrades ==
  \A e \in DOMAIN order_map, t \in TradeTypes \ {"SECONDARY_MARKET"},
     v \in RspVolumes :
    LET r == on_order_traded(order_map, next_id,
               [engine_order_id |-> e, order_id |-> BrokerId(e),
                volume |-> v, trade_type |-> t])
    IN /\ CountAny(r.calls, "risk.on_order_traded") = 1
       /\ Count(r.calls, "risk.on_order_traded", e) = 1
       /\ (e \notin DOMAIN r.map) <=> (t = "PRIMARY_MARKET")
       /\ \A x \in DOMAIN order_map \ {e} :
             x \in DOMAIN r.map /\ r.map[x] = order_map[x]
       /\ t # "PRIMARY_MARKET" =>
             /\ r.map[e].traded_volume = order_map[e].traded_volume
             /\ r.map[e].canceled_volume = order_map[e].canceled_volume

C16_Witness ==
  /\ last.op = "on_primary_market_traded"
  /\ last.eid \in DOMAIN order_map
  /\ Count(last.calls, "risk.on_order_traded", last.eid) = 1
  /\ order_map[last.eid].traded_volume = 1
  /\ order_map[last.eid].req.volume = MaxVolume

\* C20: for every engine order id the risk hooks come in lifecycle order:
\* on_order_sent once, with the insertion, before any hook a callback makes
\* for the order; on_order_accepted before every on_order_traded; and no hook
\* for an id once its order is out of the registry.
HooksFor(calls, e) ==
  {i \in DOMAIN calls : calls[i][1] \in RiskHookNames /\ calls[i][2] = e}

C20_Step ==
  \A e \in EngineIds :
    LET calls == last'.calls
        sent == Count(calls, "risk.on_order_sent", e)
    IN
    \* on_order_sent: by send_order, for the id it took, never again
    /\ sent <= 1
    /\ sent = 1 => /\ last'.op = "send_order"
                   /\ SendPending(e) /\ ~SendPending(e)'
                   /\ e < next_id /\ next_id' = next_id
                   /\ e \notin DOMAIN order_map
    \* an order enters the registry only with its on_order_sent
    /\ (e \in DOMAIN order_map' \ DOMAIN order_map) <=> (sent = 1)
    \* a callback makes hooks only for an order of the registry
    /\ (last'.op \in CallbackOps /\ HooksFor(calls, e) # {}) =>
          e \in DOMAIN order_map
    \* on_order_accepted comes before on_order_traded
    /\ Count(calls, "risk.on_order_traded", e) > 0 =>
          /\ n_accepted'[e] = 1
          /\ Count(calls, "risk.on_order_accepted", e) = 1 =>
                Index(calls, "risk.on_order_accepted")
                  < Index(calls, "risk.on_order_traded")
    \* nothing after the erase
    /\ (e < next_id /\ e \notin DOMAIN order_map /\ ~SendPending(e))
          => HooksFor(calls, e) = {}
    /\ Erased(calls, e) =>
          \A i \in HooksFor(calls, e) : i < Index(calls, "map.erase")

C20_HookLifecycle == [][C20_Step]_vars

C20_Witness ==
  /\ last.op = "on_secondary_market_traded"
  /\ last.calls = <<Call("risk.on_order_accepted", last.eid, 0),
                    Call("risk.on_order_traded", last.eid, 0),
                    Call("risk.on_order_completed", last.eid, 0),
                    Call("map.erase", last.eid, 0)>>
  /\ order_map = <<>>
  /\ next_id = MaxOrders + 1

\* ------------------------------------------------- claims under SpecRing
\* C13: on the ring path every execute_cmd comes after a successful open of
\* the ring under the engine's own tag and after the reset, so no entry that
\* was on the ring before the consumer attached is executed; when the open
\* fails and the create fails, or the open after the create fails, the engine
\* aborts and has executed nothing.
C13_ResetBeforeExecute ==
  /\ \A x \in executed : ~x.stale
  /\ executed # {} => cq_pc = "pop"
  /\ cq_pc \in {"reset", "pop"} => LFQueue_open(ring, te_user_id)
  /\ cq_pc = "pop" => \A i \in DOMAIN ring.entries : ~ring.entries[i].stale
  /\ cq_pc \in {"open", "create", "reopen", "reset", "aborted"} =>
        (executed = {} /\ order_map = <<>> /\ next_id = 1 /\ DispatchIdle)
  /\ cq_pc = "create" =>
        \A shm_ok \in BOOLEAN :
          LFQueue_create(ring, te_user_id, shm_ok).res # 0 =>
            process_cmd_from_queue(cq_pc, ring, shm_ok).pc = "aborted"
  /\ (cq_pc = "reopen" /\ ~LFQueue_open(ring, te_user_id)) =>
        process_cmd_from_queue(cq_pc, ring, TRUE).pc = "aborted"

C13_Witness ==
  /\ cq_pc = "pop"
  /\ ring.dropped = MaxRing
  /\ executed # {}
  /\ order_map # <<>>

\* ---------------------------------------------- claims under SpecThreads
\* the threads that stand in a handler where it reads or writes the registry
InRegistry ==
  {t \in Threads : th[t].pc \in {"body", "sent"} /\ th[t].op \in TouchesRegistry}

\* C17: with the dispatch thread and the callback threads running together,
\* a thread reads or writes the registry or an Order only while it holds the
\* engine mutex; so no two handlers are in their read-modify-write at once,
\* and callbacks for the same engine_order_id run one after the other.
C17_RegistryUnderMutex ==
  /\ \A t \in InRegistry : mutex = t
  /\ Cardinality(InRegistry) <= 1
  /\ \A t, u \in CallbackThreads :
       (t # u /\ th[t].id = th[u].id) => ~(t \in InRegistry /\ u \in InRegistry)

C17_Witness ==
  /\ th["callback1"] = [pc |-> "body", op |-> "on_order_traded", id |-> 1]
  /\ th["callback2"] = [pc |-> "lock", op |-> "on_order_canceled", id |-> 1]
  /\ th[DispatchThread].pc = "lock"
  /\ mutex = "callback1"
  /\ 1 \in DOMAIN order_map

\* some thread waits for the mutex
Waiting == {t \in Threads : th[t].pc = "lock"}

\* C18: the mutex is held across the gateway calls, which return without
\* waiting for the engine; then whenever a thread waits for the mutex, the
\* mutex is free or its holder can go on (no deadlock), and every thread that
\* takes the mutex releases it.
C18_MutexReleased ==
  /\ [](Waiting # {} =>
          (mutex = "free"
             \/ \E h \in Threads : mutex = h /\ ENABLED (Body(h) \/ Insert(h))))
  /\ \A t \in Threads : (mutex = t) ~> (mutex # t)

C18_Witness ==
  /\ th[DispatchThread].pc = "body"
  /\ th[DispatchThread].op = "cancel_all"
  /\ mutex = DispatchThread
  /\ Waiting = CallbackThreads
  /\ Cardinality(DOMAIN order_map) = 2

\* C19: a callback for an order the gateway was given finds it in the
\* registry, however early it comes, unless the order was erased before:
\* the callback gets the mutex only after send_order has inserted the order.
C19_SentOrderFound ==
  \A t \in CallbackThreads :
    (th[t].pc = "body" /\ th[t].op \in TouchesRegistry) =>
      (th[t].id \in DOMAIN order_map \/ th[t].id \in erased)

C19_Witness ==
  /\ th[DispatchThread].pc = "sent"
  /\ \A t \in CallbackThreads :
       th[t].pc = "lock" /\ th[t].id = th[DispatchThread].id
  /\ th[DispatchThread].id \notin DOMAIN order_map
  /\ th[DispatchThread].id \notin erased

====
